---- MODULE Spec2Model ----
(***************************************************************************)
(* State-machine model of the wiki scraper plugin: the route handlers of   *)
(* init(), performScrape() (page listing, filtering, bounded-concurrency   *)
(* extraction with retry/backoff) and the pure helpers they call.          *)
(*                                                                         *)
(* Two variants of the program exist: the baseline (src/src/index.ts) and  *)
(* the advanced one (src/unnamed/part_001).  The variable "variant" says   *)
(* which one a behaviour runs.                                             *)
(*                                                                         *)
(* JavaScript strings are modelled as sequences of one-character strings.  *)
(* Node runs one callback at a time and drains the promise (microtask)     *)
(* queue before the next timer or network callback is run, so each action  *)
(* below is one such callback together with every continuation that it     *)
(* makes ready.                                                            *)
(***************************************************************************)
EXTENDS Integers, Sequences, FiniteSets, TLC

\* ------------------------------------------------------------------ bounds

\* Number of pages the modelled wiki holds at most.
MaxPages == 3
\* Number of failing page responses the wiki gives in one scrape (Spec).
MaxFaults == 2
\* Number of titles one listing response carries (aplimit, scaled down).
BatchSize == 2
\* Number of pieces a url input of SpecUrl is made of at most.
MaxUrlTokens == 3
\* Number of sibling elements the markup of a page of SpecDom has at most.
MaxElements == 4

\* ------------------------------------------------------- program constants

MIN_TEXT_LENGTH == 100
MAX_RETRIES == 10
BASE_RETRY_DELAY == 5000
CONCURRENCY == 30
TransientDelay == 2000

\* ----------------------------------------------------------------- strings

\* An absent (undefined) field of the request body: no character sequence.
Absent == <<"undefined">>

Lower ==
    <<"a", "b", "c", "d", "e", "f", "g", "h", "i", "j", "k", "l", "m",
      "n", "o", "p", "q", "r", "s", "t", "u", "v", "w", "x", "y", "z">>
Upper ==
    <<"A", "B", "C", "D", "E", "F", "G", "H", "I", "J", "K", "L", "M",
      "N", "O", "P", "Q", "R", "S", "T", "U", "V", "W", "X", "Y", "Z">>

IsUpper(c) == \E i \in 1..Len(Upper) : c = Upper[i]

IsLetter(c) == IsUpper(c) \/ \E i \in 1..Len(Lower) : c = Lower[i]

ToLower(c) == IF IsUpper(c) THEN Lower[CHOOSE i \in 1..Len(Upper) : c = Upper[i]] ELSE c

IsSpace(c) == c \in {" ", "\t", "\n"}

Rep(c, n) == [i \in 1..n |-> c]

LowerStr(s) == [i \in 1..Len(s) |-> ToLower(s[i])]

StartsWith(s, p) == Len(p) <= Len(s) /\ SubSeq(s, 1, Len(p)) = p

EndsWith(s, p) == Len(p) <= Len(s) /\ SubSeq(s, Len(s) - Len(p) + 1, Len(s)) = p

\* The first index >= from at which p occurs in s, 0 when there is none.
IndexOf(s, p, from) ==
    LET hits == {i \in from..(Len(s) - Len(p) + 1) : SubSeq(s, i, i + Len(p) - 1) = p}
    IN  IF hits = {} THEN 0 ELSE CHOOSE i \in hits : \A j \in hits : i <= j

Includes(s, p) == IndexOf(s, p, 1) # 0

\* String.prototype.trim
Trim(s) ==
    LET keep == {i \in 1..Len(s) : ~IsSpace(s[i])}
    IN  IF keep = {} THEN <<>>
        ELSE LET lo == CHOOSE i \in keep : \A j \in keep : i <= j
                 hi == CHOOSE i \in keep : \A j \in keep : i >= j
             IN  SubSeq(s, lo, hi)

ApiPhp == <<"a", "p", "i", ".", "p", "h", "p">>
SlashApiPhp == <<"/">> \o ApiPhp
Https == <<"h", "t", "t", "p", "s", ":", "/", "/">>
Http == <<"h", "t", "t", "p">>
FandomCom == <<"f", "a", "n", "d", "o", "m", ".", "c", "o", "m">>
DotFandomApi == <<".">> \o FandomCom \o SlashApiPhp
UndefinedStr == <<"u", "n", "d", "e", "f", "i", "n", "e", "d">>

\* -------------------------------------------------------------- URL resolver

\* new URL(s) for the inputs of the model: scheme "://" host [ "/" path ].
\* ok = FALSE stands for the TypeError the constructor throws.
ParseURL(s) ==
    LET sep == IndexOf(s, <<":", "/", "/">>, 1)
        rest == SubSeq(s, sep + 3, Len(s))
        stop == {i \in 1..Len(rest) : rest[i] \in {"/", "?", "#"}}
        hostEnd == IF stop = {} THEN Len(rest)
                   ELSE (CHOOSE i \in stop : \A j \in stop : i <= j) - 1
    IN  IF sep <= 1 \/ hostEnd = 0
        THEN [ok |-> FALSE, protocol |-> <<>>, hostname |-> <<>>]
        ELSE [ok |-> TRUE,
              protocol |-> LowerStr(SubSeq(s, 1, sep)),
              hostname |-> LowerStr(SubSeq(rest, 1, hostEnd))]

\* getFandomApiUrl never throws: its catch block builds the fallback URL.
getFandomApiUrl(fandom) ==
    IF fandom = Absent
    THEN Https \o UndefinedStr \o DotFandomApi
    ELSE LET f == Trim(fandom)
             url == ParseURL(IF StartsWith(f, Http) THEN f ELSE Https \o f)
         IN  IF Includes(f, <<".">>) /\ url.ok /\ EndsWith(url.hostname, FandomCom)
             THEN url.protocol \o <<"/", "/">> \o url.hostname \o SlashApiPhp
             ELSE Https \o f \o DotFandomApi

\* urlStr.trim() on an absent url is a TypeError: the function has no try.
getMediaWikiApiUrlThrows(urlStr) == urlStr = Absent

\* Mutant: the suffix is appended without looking at the end of the url.
getMediaWikiApiUrlAppending(urlStr) ==
    LET t == Trim(urlStr)
        url == IF EndsWith(t, <<"/">>) THEN SubSeq(t, 1, Len(t) - 1) ELSE t
    IN  url \o SlashApiPhp

getMediaWikiApiUrl(urlStr) ==
    LET t == Trim(urlStr)
        url == IF EndsWith(t, <<"/">>) THEN SubSeq(t, 1, Len(t) - 1) ELSE t
    IN  IF ~EndsWith(url, ApiPhp) THEN url \o SlashApiPhp ELSE url

\* ------------------------------------------------------------ filter compiler

NoFilter == [none |-> TRUE]

JsFlags == {"d", "g", "i", "m", "s", "u", "v", "y"}
ScraperFlags == {"g", "m", "i", "x", "X", "s", "u", "U", "A", "J"}

\* /^(?!.*?(.).*?\1)[gmixXsuUAJ]+$/.test(flags)
ValidFlags(flags) ==
    /\ Len(flags) > 0
    /\ \A i \in 1..Len(flags) : flags[i] \in ScraperFlags
    /\ \A i, j \in 1..Len(flags) : i # j => flags[i] # flags[j]

\* The maximal run of letters of s that starts at index from.
LetterRun(s, from) ==
    LET bad == {i \in from..Len(s) : ~IsLetter(s[i])}
        end == IF bad = {} THEN Len(s) ELSE (CHOOSE i \in bad : \A j \in bad : i <= j) - 1
    IN  SubSeq(s, from, end)

\* input.match(/(\/?)(.+)\1([a-z]*)/i) for a non-empty input without line
\* breaks: groups 2 and 3 of the leftmost, greedy match.
MatchDelimited(input) ==
    LET closing == {j \in 3..Len(input) : input[j] = "/"}
        last == CHOOSE j \in closing : \A k \in closing : j >= k
    IN  IF input[1] = "/" /\ closing # {}
        THEN [pattern |-> SubSeq(input, 2, last - 1), flags |-> LetterRun(input, last + 1)]
        ELSE [pattern |-> input, flags |-> <<>>]

\* RegExp(source, flags); the model draws sources without metacharacters.
MkRegExp(source, flags) ==
    [none |-> FALSE, source |-> source,
     ignoreCase |-> \E i \in 1..Len(flags) : flags[i] = "i",
     global |-> \E i \in 1..Len(flags) : flags[i] = "g"]

regexFromString(input) ==
    IF input = Absent THEN NoFilter
    ELSE IF Len(input) = 0 THEN NoFilter
    ELSE LET m == MatchDelimited(input)
         IN  IF Len(m.flags) > 0 /\ ~ValidFlags(m.flags)
             THEN MkRegExp(input, <<"i">>)
             ELSE IF \E i \in 1..Len(m.flags) : m.flags[i] \notin JsFlags
                  THEN NoFilter
                  ELSE MkRegExp(m.pattern, m.flags)

\* RegExp.prototype.test: the result and the lastIndex the matcher is left with.
RegexTest(re, s, lastIndex) ==
    LET subject == IF re.ignoreCase THEN LowerStr(s) ELSE s
        needle == IF re.ignoreCase THEN LowerStr(re.source) ELSE re.source
        from == IF re.global THEN lastIndex + 1 ELSE 1
        at == IF from > Len(s) + 1 THEN 0 ELSE IndexOf(subject, needle, from)
    IN  [found |-> at # 0,
         lastIndex |-> IF re.global /\ at # 0 THEN at + Len(needle) - 1 ELSE 0]

RECURSIVE FilterFrom(_, _, _, _)
FilterFrom(re, pages, i, lastIndex) ==
    IF i > Len(pages) THEN <<>>
    ELSE LET r == RegexTest(re, pages[i], lastIndex)
         IN  (IF r.found THEN <<pages[i]>> ELSE <<>>)
                 \o FilterFrom(re, pages, i + 1, r.lastIndex)

IsLower(c) == \E i \in 1..Len(Lower) : c = Lower[i]

AllLower(s) == \A i \in 1..Len(s) : IsLower(s[i])

\* Mutant: the locale pattern without its i flag.
IsLangSubpageLower(title) ==
    \E i \in 1..Len(title) :
        /\ title[i] = "/"
        /\ LET rest == SubSeq(title, i + 1, Len(title))
           IN  \E k \in {2, 3} :
                  /\ Len(rest) >= k
                  /\ AllLower(SubSeq(rest, 1, k))
                  /\ \/ Len(rest) = k
                     \/ /\ Len(rest) >= k + 2
                        /\ rest[k + 1] = "-"
                        /\ AllLower(SubSeq(rest, k + 2, Len(rest)))

\* /\/[a-z]{2,3}(-[a-z]+)?$/i.test(title)
AllLetters(s) == \A i \in 1..Len(s) : IsLetter(s[i])

IsLangSubpage(title) ==
    \E i \in 1..Len(title) :
        /\ title[i] = "/"
        /\ LET rest == SubSeq(title, i + 1, Len(title))
           IN  \E k \in {2, 3} :
                  /\ Len(rest) >= k
                  /\ AllLetters(SubSeq(rest, 1, k))
                  /\ \/ Len(rest) = k
                     \/ /\ Len(rest) >= k + 2
                        /\ rest[k + 1] = "-"
                        /\ AllLetters(SubSeq(rest, k + 2, Len(rest)))

RECURSIVE SelectSeq2(_, _, _)
SelectSeq2(s, i, keepLang) ==
    IF i > Len(s) THEN <<>>
    ELSE (IF keepLang \/ ~IsLangSubpage(s[i]) THEN <<s[i]>> ELSE <<>>)
             \o SelectSeq2(s, i + 1, keepLang)

\* ------------------------------------------------------------ text clean-up

EditToken == <<"[", "e", "d", "i", "t", "]">>

\* The characters of s at the indices in keep, in order.
KeepAt(s, keep) ==
    LET tagged == [i \in 1..Len(s) |-> <<i, s[i]>>]
        sel == SelectSeq(tagged, LAMBDA p : p[1] \in keep)
    IN  [k \in 1..Len(sel) |-> sel[k][2]]

\* .replace(/\[edit\]/gi, ''): occurrences of the token cannot overlap.
StripEdit(s) ==
    LET at == {j \in 1..(Len(s) - 5) : LowerStr(SubSeq(s, j, j + 5)) = EditToken}
    IN  KeepAt(s, {i \in 1..Len(s) : ~\E j \in at : j <= i /\ i <= j + 5})

\* .replace(/[ \t]+/g, ' '): a run of blanks becomes one space.
CollapseBlanks(s) ==
    LET blank(i) == s[i] \in {" ", "\t"}
        t == [i \in 1..Len(s) |-> IF blank(i) THEN " " ELSE s[i]]
    IN  KeepAt(t, {i \in 1..Len(s) : ~blank(i) \/ i = 1 \/ ~blank(i - 1)})

\* .replace(/\n\s*\n/g, '\n\n'): a match starts at the first line break of a run
\* of white space and, \s* being greedy, ends at the last line break of that run.
CollapseLines(s) ==
    LET runOf(i) == {j \in 1..Len(s) :
                        \A k \in (IF j < i THEN j ELSE i)..(IF j < i THEN i ELSE j) :
                            IsSpace(s[k])}
        breaks(i) == {j \in runOf(i) : s[j] = "\n"}
        inside(i) == /\ IsSpace(s[i])
                     /\ \E f, l \in breaks(i) : f < i /\ i < l
    IN  KeepAt(s, {i \in 1..Len(s) : ~inside(i)})

\* The chain applied to the converted text of a page.
Normalize(text) ==
    Trim(CollapseLines(CollapseBlanks(StripEdit(text))))

\* ----------------------------------------------------------- heading pruning

\* /^h[2-6]$/.test(name)
IsHeading(name) == name \in {"h2", "h3", "h4", "h5", "h6"}

\* The sibling elements of a parent as cheerio holds them: each element with
\* its identity (its place in the parsed markup) and its tag name.
Dom(names) == [i \in 1..Len(names) |-> [id |-> i, name |-> names[i]]]

\* $('h2, h3, h4, h5, h6'): the headings selected before the pass, in
\* document order.
Headings(dom) == SelectSeq(dom, LAMBDA el : IsHeading(el.name))

\* Place of the element el in the dom as it is now.
PlaceOf(dom, el) == CHOOSE k \in 1..Len(dom) : dom[k].id = el.id

\* $(el).remove()
Remove(dom, el) == SelectSeq(dom, LAMBDA x : x.id # el.id)

\* Mutant: a heading is removed only when a heading follows it.
PruneOneIfHeadingFollows(dom, el) ==
    LET k == PlaceOf(dom, el)
    IN  IF k < Len(dom) /\ IsHeading(dom[k + 1].name) THEN Remove(dom, el) ELSE dom

\* The callback of .each for one selected heading: next is the sibling
\* element that follows it in the dom as it is now.
PruneOne(dom, el) ==
    LET k == PlaceOf(dom, el)
    IN  IF k = Len(dom) \/ IsHeading(dom[k + 1].name) THEN Remove(dom, el) ELSE dom

\* .each over the selection, from its i-th element on.
RECURSIVE PruneFrom(_, _, _)
PruneFrom(dom, selection, i) ==
    IF i > Len(selection) THEN dom
    ELSE PruneFrom(PruneOne(dom, selection[i]), selection, i + 1)

\* The pruning pass over the sibling elements parsed from the markup.
PruneHeadings(names) == PruneFrom(Dom(names), Headings(Dom(names)), 1)

\* -------------------------------------------------------------------- state

VARIABLES
    variant,        \* "baseline" (src/src/index.ts) or "advanced" (src/unnamed/part_001)
    route,          \* "fandom" (/scrape, /scrape-fandom) or "mediawiki" (/scrape-mediawiki)
    body,           \* the request body: [target, filter], each a string or Absent
    wikiN,          \* number of pages of the remote wiki
    flavor,         \* which page contents the remote wiki serves
    markup,         \* tag names of the sibling elements of the wiki's page markup
    faults,         \* failing page responses the remote wiki may still give
    apiUrl,         \* performScrape's apiUrl
    filter,         \* performScrape's filter: a matcher or NoFilter
    config,         \* performScrape's config
    pcMain,         \* "idle", "listSleep", "listReq", "scraping", "done"
    scrape,         \* performScrape's promise: "none", "pending", "returned", "rejected"
    response,       \* the HTTP response of the route handler
    listFailed,     \* history: a listing request has failed
    allPages,       \* accumulated titles; the retained titles once filtered
    continueToken,  \* continuation of the last listing response, 0 for null
    listSent,       \* history: the continuation sent with each listing request
    pc,             \* per task: "queued", "jitter", "fetching", "backoff", "done"
    attempts,       \* per task: the attempts counter of the retry loop
    log,            \* per task, history: its fetches and backoff sleeps in order
    lastResp,       \* per task, history: the last page response it received
    rateLimited,    \* per task, history: number of HTTP 429 responses received
    queue,          \* p-limit's queue of tasks not yet admitted
    activeCount,    \* p-limit's count of admitted, unfinished tasks
    results,        \* the result collection
    completed,      \* the completed counter
    progress,       \* history: the values of completed at each progress report
    errLines,       \* per task, history: console.error lines written for it
    pruned          \* history: the elements the last pruning pass has left

reqVars == <<variant, route, body, wikiN, flavor, markup>>
mainVars == <<apiUrl, filter, config, pcMain, scrape, response, listFailed>>
listVars == <<allPages, continueToken, listSent>>
taskVars ==
    <<pc, attempts, log, lastResp, rateLimited, queue, activeCount, results,
      completed, progress, errLines, pruned>>
vars == <<reqVars, faults, mainVars, listVars, taskVars>>

\* ------------------------------------------------------------- remote wiki

TitlePool ==
    << <<"A", "b">>, <<"a", "/", "f", "r">>, <<"a", "B">>, <<"b">>, <<"B", "/", "F", "R">>,
       <<"b", "/", "a", "b", "c", "d">>, <<"b", "/", "z", "h", "-", "h", "a", "n", "s">> >>

TitleAt(i) == IF i <= Len(TitlePool) THEN TitlePool[i] ELSE <<"a">> \o Rep("c", i)

\* Converted page texts (the output of convert() on the pruned markup).
TextAtThreshold == Rep("x", 50) \o <<" ", "\t", " ">> \o Rep("x", 49)
TextLong == Rep("x", 60) \o <<"\n", " ", "\n", "\n">> \o Rep("y", 60)
TextShort == <<" ">> \o Rep("x", 93) \o <<"[", "E", "d", "i", "t", "]", "\n">>

PageKinds ==
    << [parse |-> TRUE, throws |-> FALSE, text |-> TextAtThreshold],
       [parse |-> TRUE, throws |-> FALSE, text |-> TextShort],
       [parse |-> FALSE, throws |-> FALSE, text |-> <<>>],
       [parse |-> TRUE, throws |-> TRUE, text |-> <<>>],
       [parse |-> TRUE, throws |-> FALSE, text |-> TextLong] >>

\* The wiki serves its i-th page the content (i - 1 + flavor) of PageKinds.
Flavors == {0, 3}

\* Index in the wiki of the page titled so (titles of the wiki are distinct).
PageIndex(title) == CHOOSE i \in 1..(Len(TitlePool) + MaxPages + 1) : TitleAt(i) = title

\* Which content the wiki serves for a title.
KindOf(title) == ((PageIndex(title) - 1 + flavor) % Len(PageKinds)) + 1

\* The data of a successful action=parse response for a title.
PageOf(title) == PageKinds[KindOf(title)]

\* The data of a successful list=allpages response to a request that carries
\* the continuation token.
ListResponse(token) ==
    LET hi == IF token + BatchSize < wikiN THEN token + BatchSize ELSE wikiN
    IN  [allpages |-> [i \in 1..(hi - token) |-> TitleAt(token + i)],
         continue |-> IF hi < wikiN THEN hi ELSE 0]

\* Errors axios.get rejects with: an HTTP status, or no response and a code.
HttpError(status) == [hasResponse |-> TRUE, status |-> status, code |-> "ERR_BAD_RESPONSE"]
NetError(code) == [hasResponse |-> FALSE, status |-> 0, code |-> code]

PageErrors ==
    {HttpError(429), HttpError(502), HttpError(503), HttpError(404),
     NetError("ECONNRESET"), NetError("ECONNABORTED")}

\* ECONNABORTED is the code of axios' timeout error (timeout: 15000).
TimeoutError == NetError("ECONNABORTED")

ListErrors == {HttpError(503), NetError("ECONNRESET")}

ErrMessage(e) ==
    IF e.hasResponse THEN "Request failed with status code" ELSE "network error"

OkResp == [hasResponse |-> TRUE, status |-> 200, code |-> "OK"]
NoResp == [hasResponse |-> FALSE, status |-> 0, code |-> "NONE"]

\* ---------------------------------------------------------- route handlers

FandomConfig ==
    [concurrency |-> 30, minDelay |-> 0, maxDelay |-> 0,
     autoFilterLangs |-> FALSE, listingDelay |-> 0]

MediaWikiConfig ==
    [concurrency |-> 2, minDelay |-> 100, maxDelay |-> 800,
     autoFilterLangs |-> TRUE, listingDelay |-> 200]

\* The baseline has no ScrapeConfig: one constant gate width, no delays.
BaselineConfig ==
    [concurrency |-> CONCURRENCY, minDelay |-> 0, maxDelay |-> 0,
     autoFilterLangs |-> FALSE, listingDelay |-> 0]

ConfigOf(v, r) ==
    IF v = "baseline" THEN BaselineConfig
    ELSE IF r = "fandom" THEN FandomConfig ELSE MediaWikiConfig

NoResponse == [status |-> 0, pages |-> <<>>, message |-> <<>>]

\* res.json(results)
JsonResponse(pages) == [status |-> 200, pages |-> pages, message |-> <<>>]

\* res.status(500).send(error.message)
ErrorResponse(message) == [status |-> 500, pages |-> <<>>, message |-> message]

TrimTypeError == <<"Cannot read properties of undefined (reading 'trim')">>

\* throw new Error(`Failed to fetch page list: ${err.message}`)
ListingError(e) == <<"Failed to fetch page list: ", ErrMessage(e)>>

\* Mutant: the request is built from the continuation held before the last
\* response was read.
ListingLoopStale(cfg, token) ==
    IF cfg.listingDelay > 0
    THEN /\ pcMain' = "listSleep"
         /\ listSent' = listSent
    ELSE /\ pcMain' = "listReq"
         /\ listSent' = Append(listSent, continueToken)

\* The head of the listing loop: the optional sleep, then the request.
ListingLoop(cfg, token) ==
    IF cfg.listingDelay > 0
    THEN /\ pcMain' = "listSleep"
         /\ listSent' = listSent
    ELSE /\ pcMain' = "listReq"
         /\ listSent' = Append(listSent, token)

\* performScrape(apiUrl, config, filter) up to its first await.
CallPerformScrape(url, cfg, re) ==
    /\ apiUrl' = url
    /\ config' = cfg
    /\ filter' = re
    /\ scrape' = "pending"
    /\ ListingLoop(cfg, 0)
    /\ UNCHANGED <<response, listFailed, allPages, continueToken>>

\* router.post(['/scrape-fandom', '/scrape'], ...)
ScrapeFandom ==
    /\ pcMain = "idle"
    /\ route = "fandom"
    /\ CallPerformScrape(getFandomApiUrl(body.target), ConfigOf(variant, route),
                         regexFromString(body.filter))
    /\ UNCHANGED <<reqVars, faults, taskVars>>

\* router.post('/scrape-mediawiki', ...)
ScrapeMediaWiki ==
    /\ pcMain = "idle"
    /\ route = "mediawiki"
    /\ IF getMediaWikiApiUrlThrows(body.target)
       THEN /\ pcMain' = "done"
            /\ response' = ErrorResponse(TrimTypeError)
            /\ UNCHANGED <<apiUrl, filter, config, scrape, listFailed, listVars>>
       ELSE CallPerformScrape(getMediaWikiApiUrl(body.target), ConfigOf(variant, route),
                              regexFromString(body.filter))
    /\ UNCHANGED <<reqVars, faults, taskVars>>

\* ------------------------------------------------------------- admission gate

\* The gate (p-limit) and the tasks' positions, as one value.
Gate == [pc |-> pc, queue |-> queue, activeCount |-> activeCount, log |-> log]

FetchEv == [ev |-> "fetch", ms |-> 0]
SleepEv(ms) == [ev |-> "sleep", ms |-> ms]

\* randomSleep(min, max) is a timer unless both are 0 (baseline: no such call).
Jitters == ~(config.minDelay = 0 /\ config.maxDelay = 0)

\* One pass of the task's try block up to its first timer or request.
BeginAttempt(g, t) ==
    IF Jitters
    THEN [g EXCEPT !.pc[t] = "jitter"]
    ELSE [g EXCEPT !.pc[t] = "fetching", !.log[t] = Append(@, FetchEv)]

\* Mutant: a gate that admits every task at once.
HasRoomUnbounded(g) == TRUE

\* pLimit(concurrency): a task is started only below the limit.
HasRoom(g) == g.activeCount < config.concurrency

\* p-limit runs the head of its queue.
Dequeue(g) ==
    BeginAttempt([g EXCEPT !.queue = Tail(@), !.activeCount = @ + 1], Head(g.queue))

\* limit(fn) enqueues, then starts the head of the queue if there is room.
RECURSIVE StartQueued(_, _)
StartQueued(g, n) ==
    IF n = 0 THEN g
    ELSE StartQueued(IF HasRoom(g) /\ g.queue # <<>> THEN Dequeue(g) ELSE g, n - 1)

\* Mutant: a finished task frees its slot without starting the next task.
ReleaseSlotOnly(g) == [g EXCEPT !.activeCount = @ - 1]

\* p-limit's next(): a finished task gives its slot to the head of the queue.
ReleaseSlot(g) ==
    LET h == [g EXCEPT !.activeCount = @ - 1]
    IN  IF h.queue # <<>> THEN Dequeue(h) ELSE h

\* ------------------------------------------------------------------ listing

\* The title filter applied once the listing loop has ended.
Retained(pages) ==
    IF filter.none /\ config.autoFilterLangs THEN SelectSeq2(pages, 1, FALSE)
    ELSE IF ~filter.none THEN FilterFrom(filter, pages, 1, 0)
    ELSE pages

SetGate(g) ==
    /\ pc' = g.pc
    /\ queue' = g.queue
    /\ activeCount' = g.activeCount
    /\ log' = g.log

\* From the end of the listing loop to the first await of performScrape's
\* second half: filter, schedule one task per title, await Promise.all(tasks).
BeginExtraction(pages) ==
    LET kept == Retained(pages)
        n == Len(kept)
        g0 == [pc |-> [t \in 1..n |-> "queued"], queue |-> [t \in 1..n |-> t],
               activeCount |-> 0, log |-> [t \in 1..n |-> <<>>]]
    IN  /\ allPages' = kept
        /\ SetGate(StartQueued(g0, n))
        /\ attempts' = [t \in 1..n |-> 0]
        /\ lastResp' = [t \in 1..n |-> NoResp]
        /\ rateLimited' = [t \in 1..n |-> 0]
        /\ errLines' = [t \in 1..n |-> 0]
        /\ UNCHANGED <<results, completed, progress, pruned>>
        /\ IF n = 0
           THEN /\ scrape' = "returned"
                /\ response' = JsonResponse(results)
                /\ pcMain' = "done"
           ELSE /\ pcMain' = "scraping"
                /\ UNCHANGED <<scrape, response>>

\* The timer of sleep(config.listingDelay) fires: the listing request is sent.
ListSleepDone ==
    /\ pcMain = "listSleep"
    /\ pcMain' = "listReq"
    /\ listSent' = Append(listSent, continueToken)
    /\ UNCHANGED <<reqVars, faults, taskVars, allPages, continueToken>>
    /\ UNCHANGED <<apiUrl, filter, config, scrape, response, listFailed>>

\* Mutant: extraction begins with the first batch, whatever its continuation.
ListOkEager ==
    /\ pcMain = "listReq"
    /\ LET data == ListResponse(listSent[Len(listSent)])
       IN  /\ continueToken' = data.continue
           /\ BeginExtraction(allPages \o data.allpages)
           /\ UNCHANGED listSent
    /\ UNCHANGED <<reqVars, faults, apiUrl, filter, config, listFailed>>

\* A listing request is answered.
ListOk ==
    /\ pcMain = "listReq"
    /\ LET data == ListResponse(listSent[Len(listSent)])
           pages == allPages \o data.allpages
       IN  /\ continueToken' = data.continue
           /\ IF data.continue # 0
              THEN /\ allPages' = pages
                   /\ ListingLoop(config, data.continue)
                   /\ UNCHANGED <<scrape, response, taskVars>>
              ELSE /\ BeginExtraction(pages)
                   /\ UNCHANGED listSent
    /\ UNCHANGED <<reqVars, faults, apiUrl, filter, config, listFailed>>

\* Mutant: the listing loop gives up on an error and goes on with the titles
\* accumulated so far.
ListFailPartial(e) ==
    /\ pcMain = "listReq"
    /\ listFailed' = TRUE
    /\ BeginExtraction(allPages)
    /\ UNCHANGED <<reqVars, faults, apiUrl, filter, config, continueToken, listSent>>

\* A listing request fails: the catch rethrows, the route handler answers 500.
ListFail(e) ==
    /\ pcMain = "listReq"
    /\ listFailed' = TRUE
    /\ scrape' = "rejected"
    /\ response' = ErrorResponse(ListingError(e))
    /\ pcMain' = "done"
    /\ UNCHANGED <<reqVars, faults, apiUrl, filter, config, listVars, taskVars>>

\* --------------------------------------------------------------- extraction

\* Mutant: a strict comparison with the threshold.
LongEnoughStrict(text) == Len(text) > MIN_TEXT_LENGTH

\* if (text.length >= MIN_TEXT_LENGTH)
LongEnough(text) == Len(text) >= MIN_TEXT_LENGTH

\* Mutant: the converted text is used as it is, without the clean-up chain.
CleanTextRaw(page) == page.text

\* The text whose length is tested and that is pushed.
CleanText(page) == Normalize(page.text)

\* What the try block does with the data of a page response.
Extract(page) ==
    IF ~page.parse THEN [kind |-> "return", content |-> <<>>]
    ELSE IF page.throws THEN [kind |-> "throw", content |-> <<>>]
    ELSE IF LongEnough(CleanText(page)) THEN [kind |-> "emit", content |-> CleanText(page)]
    ELSE [kind |-> "skip", content |-> <<>>]

\* Extract of every page content the remote wiki serves.
Extracted == [k \in DOMAIN PageKinds |-> Extract(PageKinds[k])]

\* The exception of cheerio/convert on a page they cannot process.
ProcessError == [hasResponse |-> FALSE, status |-> 0, code |-> "NONE"]

\* const status = e.response ? e.response.status : 'Unknown'  (0 for 'Unknown')
Status(e) == IF e.hasResponse THEN e.status ELSE 0

\* Mutant: every error that is not a rate limit is retried after 2 s.
ErrorClassNoFatal(e) == IF Status(e) = 429 THEN "ratelimit" ELSE "transient"

\* Mutant: a timeout is handled like a connection reset.
ErrorClassTimeoutTransient(e) ==
    IF Status(e) = 429 THEN "ratelimit"
    ELSE IF Status(e) = 503 \/ Status(e) = 502 \/ e.code \in {"ECONNRESET", "ECONNABORTED"}
         THEN "transient"
    ELSE "fatal"

\* The branch of the catch block an error takes.
ErrorClass(e) ==
    IF Status(e) = 429 THEN "ratelimit"
    ELSE IF Status(e) = 503 \/ Status(e) = 502 \/ e.code = "ECONNRESET" THEN "transient"
    ELSE "fatal"

RECURSIVE Pow2(_)
Pow2(n) == IF n <= 0 THEN 1 ELSE 2 * Pow2(n - 1)

\* Mutant: a backoff that does not grow.
BackoffDelayFlat(n) == BASE_RETRY_DELAY

\* Mutant: a backoff that grows linearly.
BackoffDelayLinear(n) == BASE_RETRY_DELAY * n

\* BASE_RETRY_DELAY * Math.pow(2, attempts - 1)
BackoffDelay(n) == BASE_RETRY_DELAY * Pow2(n - 1)

\* Mutant: the loop condition admits one attempt more.
LoopContinuesOneMore(success, n) == ~success /\ n <= MAX_RETRIES

\* Mutant: the loop condition forgets the success flag.
LoopContinuesAfterSuccess(success, n) == n < MAX_RETRIES

\* while (!success && attempts < MAX_RETRIES)
LoopContinues(success, n) == ~success /\ n < MAX_RETRIES

\* Mutant: a catch that handles HTTP errors only and rethrows the others.
CaughtHttpOnly(e) == e.hasResponse

\* Both variants wrap the whole task body in try/catch: every error is caught.
Caught(e) == TRUE

LogStep ==
    IF variant = "baseline" THEN 100 ELSE IF config.concurrency > 10 THEN 200 ELSE 20

\* Mutant: only the tasks that have pushed an entry are counted.
FinishCountingEmitted(t, g, att, res, errs, rejects) ==
    LET c == IF res # results THEN completed + 1 ELSE completed
        last == \A u \in DOMAIN g.pc : u = t \/ g.pc[u] = "done"
    IN  /\ SetGate(ReleaseSlot([g EXCEPT !.pc[t] = "done"]))
        /\ attempts' = att
        /\ results' = res
        /\ errLines' = errs
        /\ completed' = c
        /\ progress' = IF c # completed /\ (c % LogStep = 0 \/ c = Len(allPages))
                       THEN Append(progress, c) ELSE progress
        /\ IF scrape = "pending" /\ last
           THEN /\ scrape' = "returned"
                /\ response' = JsonResponse(res)
                /\ pcMain' = "done"
           ELSE UNCHANGED <<scrape, response, pcMain>>

\* The task's function has ended: p-limit passes the slot on, the finally
\* callback counts the task, and Promise.all settles if this was the last one.
Finish(t, g, att, res, errs, rejects) ==
    LET c == completed + 1
    IN  /\ SetGate(ReleaseSlot([g EXCEPT !.pc[t] = "done"]))
        /\ attempts' = att
        /\ results' = res
        /\ errLines' = errs
        /\ completed' = c
        /\ progress' = IF c % LogStep = 0 \/ c = Len(allPages)
                       THEN Append(progress, c) ELSE progress
        /\ IF scrape = "pending" /\ rejects
           THEN /\ scrape' = "rejected"
                /\ response' = ErrorResponse(<<"page error">>)
                /\ pcMain' = "done"
           ELSE IF scrape = "pending" /\ c = Len(allPages)
           THEN /\ scrape' = "returned"
                /\ response' = JsonResponse(res)
                /\ pcMain' = "done"
           ELSE UNCHANGED <<scrape, response, pcMain>>

\* The task goes on without ending: a sleep or another pass of the loop.
GoOn(g, att, res) ==
    /\ SetGate(g)
    /\ attempts' = att
    /\ results' = res
    /\ UNCHANGED <<errLines, completed, progress, scrape, response, pcMain>>

\* Mutant: the task gives its slot back while it sleeps in backoff.
CatchAdvancedReleasing(t, e, success) ==
    LET att == [attempts EXCEPT ![t] = @ + 1]
        class == ErrorClass(e)
        wait == IF class = "ratelimit" THEN BackoffDelay(att[t]) ELSE TransientDelay
    IN  IF class = "fatal"
        THEN Finish(t, Gate, att, results, errLines, FALSE)
        ELSE GoOn(ReleaseSlot([Gate EXCEPT !.pc[t] = "backoff",
                                           !.log[t] = Append(@, SleepEv(wait))]),
                  att, results)

\* The catch block of the advanced variant, entered with the error e.
CatchAdvanced(t, e, success) ==
    LET att == [attempts EXCEPT ![t] = @ + 1]
        class == ErrorClass(e)
        wait == IF class = "ratelimit" THEN BackoffDelay(att[t]) ELSE TransientDelay
        errs == IF att[t] = 1 /\ config.concurrency < 5
                THEN [errLines EXCEPT ![t] = @ + 1] ELSE errLines
    IN  IF class = "fatal"
        THEN Finish(t, Gate, att, results, errs, FALSE)
        ELSE GoOn([Gate EXCEPT !.pc[t] = "backoff", !.log[t] = Append(@, SleepEv(wait))], att,
                  results)

\* The catch block of either variant.
Catch(t, e, success) ==
    IF ~Caught(e) THEN Finish(t, Gate, attempts, results, errLines, TRUE)
    ELSE IF variant = "baseline" THEN Finish(t, Gate, attempts, results, errLines, FALSE)
    ELSE CatchAdvanced(t, e, success)

\* The end of a pass of the try block that did not throw.
EndOfPass(t, res, success) ==
    IF variant = "advanced" /\ LoopContinues(success, attempts[t])
    THEN GoOn(BeginAttempt(Gate, t), attempts, res)
    ELSE Finish(t, Gate, attempts, res, errLines, FALSE)

\* The timer of randomSleep fires: the page request is sent.
JitterDone(t) ==
    /\ t \in DOMAIN pc
    /\ pc[t] = "jitter"
    /\ GoOn([Gate EXCEPT !.pc[t] = "fetching", !.log[t] = Append(@, FetchEv)], attempts, results)
    /\ UNCHANGED <<reqVars, faults, apiUrl, filter, config, listFailed, listVars>>
    /\ UNCHANGED <<lastResp, rateLimited, pruned>>

\* The page request is answered with data.
PageOk(t) ==
    /\ t \in DOMAIN pc
    /\ pc[t] = "fetching"
    /\ lastResp' = [lastResp EXCEPT ![t] = OkResp]
    /\ pruned' = IF Extracted[KindOf(allPages[t])].kind \in {"emit", "skip"}
                 THEN [ran |-> TRUE, elements |-> PruneHeadings(markup)]
                 ELSE pruned
    /\ LET x == Extracted[KindOf(allPages[t])]
       IN  CASE x.kind = "return" -> Finish(t, Gate, attempts, results, errLines, FALSE)
             [] x.kind = "throw" -> Catch(t, ProcessError, TRUE)
             [] x.kind = "skip" -> EndOfPass(t, results, TRUE)
             [] x.kind = "emit" ->
                    EndOfPass(t, Append(results, [title |-> allPages[t], content |-> x.content]),
                              TRUE)
    /\ UNCHANGED <<reqVars, faults, apiUrl, filter, config, listFailed, listVars>>
    /\ UNCHANGED rateLimited

\* The page request fails: an HTTP error status, a network error or a timeout.
PageError(t, e) ==
    /\ t \in DOMAIN pc
    /\ pc[t] = "fetching"
    /\ faults > 0
    /\ faults' = faults - 1
    /\ lastResp' = [lastResp EXCEPT ![t] = e]
    /\ rateLimited' = [rateLimited EXCEPT ![t] = IF Status(e) = 429 THEN @ + 1 ELSE @]
    /\ Catch(t, e, FALSE)
    /\ UNCHANGED <<reqVars, apiUrl, filter, config, listFailed, listVars, pruned>>

\* The timer of a backoff sleep fires: the loop condition is tested again.
BackoffDone(t) ==
    /\ t \in DOMAIN pc
    /\ pc[t] = "backoff"
    /\ IF LoopContinues(FALSE, attempts[t])
       THEN GoOn(BeginAttempt(Gate, t), attempts, results)
       ELSE Finish(t, Gate, attempts, results, errLines, FALSE)
    /\ UNCHANGED <<reqVars, faults, apiUrl, filter, config, listFailed, listVars>>
    /\ UNCHANGED <<lastResp, rateLimited, pruned>>

\* ------------------------------------------------------------ specifications

Requests ==
    { [route |-> "fandom", target |-> <<"w">>, filter |-> Absent],
      [route |-> "fandom", target |-> Absent, filter |-> <<"/", "a", "/", "i">>],
      [route |-> "mediawiki", target |-> <<"w", ".", "x", "/">>,
       filter |-> <<"/", "a", "/", "i">>],
      [route |-> "mediawiki", target |-> <<"w", ".", "x">>, filter |-> Absent],
      [route |-> "mediawiki", target |-> Absent, filter |-> <<>>] }

\* No page has gone through the pruning pass yet.
NotPruned == [ran |-> FALSE, elements |-> <<>>]

\* A section heading and its paragraph.
PlainMarkup == <<"h2", "p">>

\* The state before the request is handled, for a request drawn from requests
\* and a wiki drawn from pageCounts and flavors.
InitDom(requests, pageCounts, flavors, budget, markups) ==
    /\ variant \in {"baseline", "advanced"}
    /\ \E r \in requests :
          /\ route = r.route
          /\ body = [target |-> r.target, filter |-> r.filter]
    /\ wikiN \in pageCounts
    /\ flavor \in flavors
    /\ markup \in markups
    /\ faults = budget
    /\ apiUrl = <<>>
    /\ filter = NoFilter
    /\ config = ConfigOf(variant, route)
    /\ pcMain = "idle"
    /\ scrape = "none"
    /\ response = NoResponse
    /\ listFailed = FALSE
    /\ allPages = <<>>
    /\ continueToken = 0
    /\ listSent = <<>>
    /\ pc = <<>>
    /\ attempts = <<>>
    /\ log = <<>>
    /\ lastResp = <<>>
    /\ rateLimited = <<>>
    /\ queue = <<>>
    /\ activeCount = 0
    /\ results = <<>>
    /\ completed = 0
    /\ progress = <<>>
    /\ errLines = <<>>
    /\ pruned = NotPruned

\* The same with the one page markup that the wikis of most specifications serve.
InitFor(requests, pageCounts, flavors, budget) ==
    InitDom(requests, pageCounts, flavors, budget, {PlainMarkup})

InitWith(pageCounts, budget) == InitFor(Requests, pageCounts, Flavors, budget)

Init == InitWith(0..MaxPages, MaxFaults)

Tasks == 1..(Len(TitlePool) + MaxPages)

Next ==
    \/ ScrapeFandom
    \/ ScrapeMediaWiki
    \/ ListSleepDone
    \/ ListOk
    \/ \E e \in ListErrors : ListFail(e)
    \/ \E t \in Tasks : JitterDone(t)
    \/ \E t \in Tasks : PageOk(t)
    \/ \E t \in Tasks, e \in PageErrors : PageError(t, e)
    \/ \E t \in Tasks : BackoffDone(t)

Spec == Init /\ [][Next]_vars

\* One page and as many failing responses as the retry loop has attempts.
InitRetry == InitWith({1}, MAX_RETRIES)

SpecRetry == InitRetry /\ [][Next]_vars

\* The scrapes of Spec and of SpecRetry together.
InitAll == Init \/ InitRetry

SpecAll == InitAll /\ [][Next]_vars

\* The pending timer or request of the listing loop completes.
ListingStep == ListSleepDone \/ (\E e \in ListErrors : ListFail(e)) \/ ListOk

\* The pending timer or request of a task completes.
TaskStep(t) ==
    JitterDone(t) \/ BackoffDone(t) \/ (\E e \in PageErrors : PageError(t, e)) \/ PageOk(t)

\* Every timer fires and every request is answered, with data or with an
\* error: the listing loop and each task have at most one of them pending.
Completion ==
    /\ WF_vars(ListingStep)
    /\ \A t \in 1..MaxPages : WF_vars(TaskStep(t))

\* The scrapes of Spec in which sleeps and requests complete.
SpecLive == Init /\ [][Next]_vars /\ Completion

\* Filter inputs: absent, empty, delimited with the flags g, i, x (a flag the
\* engine rejects) and gg (a repeated flag), and bare.
FilterInputs ==
    { Absent, <<>>, <<"/", "a", "/", "g">>, <<"/", "a", "/", "i">>, <<"a">>,
      <<"/", "b", "/", "x">>, <<"/", "a", "/", "g", "g">> }

FilterRequests ==
    {[route |-> "fandom", target |-> <<"w">>, filter |-> f] : f \in FilterInputs}
        \cup {[route |-> "mediawiki", target |-> <<"w", ".", "x">>, filter |-> f] :
                  f \in FilterInputs}

\* Scrapes of a wiki that holds every title of the pool, under every filter input.
InitFilter == InitFor(FilterRequests, {Len(TitlePool)}, {0}, 1)

SpecFilter == InitFilter /\ [][Next]_vars

\* Pieces of url inputs: a blank, a slash, a host, a url that ends in api.php
\* and one that nearly does.
UrlTokens ==
    { <<" ">>, <<"/">>, <<"w">>, <<"w", "/">> \o ApiPhp, <<"a", "p", "i", ".", "p", "h">> }

RECURSIVE Flatten(_)
Flatten(ts) == IF ts = <<>> THEN <<>> ELSE Head(ts) \o Flatten(Tail(ts))

UrlInputs == {Flatten(ts) : ts \in UNION {[1..n -> UrlTokens] : n \in 0..MaxUrlTokens}}

UrlRequests ==
    {[route |-> "mediawiki", target |-> u, filter |-> Absent] : u \in UrlInputs}
        \cup {[route |-> "fandom", target |-> <<"w">>, filter |-> Absent]}

\* Scrapes of a one-page wiki addressed by every url input.
InitUrl == InitFor(UrlRequests, {1}, {0}, 1)

SpecUrl == InitUrl /\ [][Next]_vars

\* Tag names of the markups of SpecDom: headings of the pruned levels, a
\* heading of level 1 and a paragraph.
TagNames == {"h1", "h2", "h3", "h6", "p"}

Markups == UNION {[1..n -> TagNames] : n \in 0..MaxElements}

DomRequests ==
    { [route |-> "fandom", target |-> <<"w">>, filter |-> Absent],
      [route |-> "mediawiki", target |-> <<"w", ".", "x">>, filter |-> Absent] }

\* Scrapes of a one-page wiki whose page has any of the markups.
InitPrune == InitDom(DomRequests, {1}, {0}, 1, Markups)

SpecDom == InitPrune /\ [][Next]_vars

\* ------------------------------------------------------------------ claims

Admitted == {t \in DOMAIN pc : pc[t] \in {"jitter", "fetching", "backoff"}}
InFlight == {t \in DOMAIN pc : pc[t] = "fetching"}
Sleeping == {t \in DOMAIN pc : pc[t] = "backoff"}
Done == {t \in DOMAIN pc : pc[t] = "done"}

NumFetches(t) == Cardinality({i \in DOMAIN log[t] : log[t][i].ev = "fetch"})
NumSleeps(t) == Cardinality({i \in DOMAIN log[t] : log[t][i].ev = "sleep"})

\* Length of the cleaned text of every page content, by the clean-up chain alone.
CleanLen == [k \in DOMAIN PageKinds |-> Len(Normalize(PageKinds[k].text))]
Cleaned == [k \in DOMAIN PageKinds |-> Normalize(PageKinds[k].text)]

\* A page whose response carries parsed text that the pipeline can process.
HasText(title) == PageOf(title).parse /\ ~PageOf(title).throws

Entries(title) == {i \in DOMAIN results : results[i].title = title}

\* C1: at every moment the tasks admitted by the gate and not yet finished,
\* and so the page fetches in flight, number at most config.concurrency.
GateBound ==
    /\ Cardinality(Admitted) <= config.concurrency
    /\ Cardinality(InFlight) <= config.concurrency
    /\ activeCount = Cardinality(Admitted)

\* C1 witness: the gate is full with fetches in flight while a task waits.
GateFull ==
    /\ queue # <<>>
    /\ Cardinality(InFlight) = config.concurrency

\* C2: performScrape rejects only when a listing request failed; once the
\* tasks are scheduled no page outcome makes it reject, and when the last task
\* has finished it has returned the collected results.
ScrapeFailsOnlyOnListing ==
    /\ scrape = "rejected" => listFailed /\ pc = <<>>
    /\ (pc # <<>> /\ Done # DOMAIN pc) => scrape = "pending"
    /\ (pc # <<>> /\ Done = DOMAIN pc) =>
           /\ scrape = "returned"
           /\ response = JsonResponse(results)

\* C2 witness: a scrape has returned the page of one task although the pages
\* of two others failed, one with an HTTP error and one without any response.
ReturnedDespiteFailures ==
    /\ scrape = "returned"
    /\ results # <<>>
    /\ \E t, u \in DOMAIN pc :
          /\ lastResp[t] = HttpError(404)
          /\ lastResp[u] = TimeoutError

\* C3: once a listing request has failed no further listing request is sent,
\* performScrape has rejected with the one listing error, no task exists, no
\* page was collected and the handler has answered 500 with that message.
ListingFailureIsTerminal ==
    [][listFailed' =>
          /\ scrape' = "rejected"
          /\ pcMain' = "done"
          /\ \E e \in ListErrors : response' = ErrorResponse(ListingError(e))
          /\ pc' = <<>> /\ queue' = <<>> /\ activeCount' = 0
          /\ results' = <<>>
          /\ completed' = 0
          /\ listFailed => listSent' = listSent]_vars

\* C3 witness: the request of a continuation batch has failed, after a first
\* batch of titles had been received.
LaterListingFailed ==
    /\ listFailed
    /\ Len(listSent) >= 2
    /\ allPages # <<>>
    /\ response.status = 500

\* C4 (as claimed): a scrape endpoint answers 500 only after a listing request
\* was sent and failed.
ServerErrorOnlyAfterListingFailure ==
    /\ pcMain = "done" => response.status \in {200, 500}
    /\ response.status = 500 => listSent # <<>> /\ listFailed

\* C5: when performScrape has returned, the collection holds one entry for
\* each retained title whose last response was a success carrying text of
\* cleaned length >= 100 and no other entry; a page without parsed text or
\* with a shorter text is left out without an error line and without another
\* fetch.
EmittedExactly ==
    scrape = "returned" =>
        /\ \A t \in DOMAIN pc :
              Cardinality(Entries(allPages[t])) =
                  IF /\ lastResp[t] = OkResp
                     /\ HasText(allPages[t])
                     /\ CleanLen[KindOf(allPages[t])] >= 100
                  THEN 1 ELSE 0
        /\ \A i \in DOMAIN results : \E t \in DOMAIN pc : results[i].title = allPages[t]
        /\ \A t \in DOMAIN pc :
              (lastResp[t] = OkResp /\ ~PageOf(allPages[t]).throws) =>
                  /\ log[t][Len(log[t])].ev = "fetch"
                  /\ NumFetches(t) = NumSleeps(t) + 1
                  /\ errLines[t] = 0

\* C5 witness: a returned scrape with an entry obtained at a retry, a page
\* skipped for its short text and a page skipped for its missing text.
EmittedAndSkipped ==
    /\ scrape = "returned"
    /\ \E t, u, v \in DOMAIN pc :
          /\ Entries(allPages[t]) # {}
          /\ attempts[t] > 0
          /\ lastResp[u] = OkResp
          /\ Entries(allPages[u]) = {}
          /\ HasText(allPages[u])
          /\ lastResp[v] = OkResp
          /\ ~PageOf(allPages[v]).parse

\* C6: the enumerated titles being distinct, no title occurs twice in the
\* result collection.
TitleAtMostOnce ==
    (\A t, u \in DOMAIN allPages : t # u => allPages[t] # allPages[u]) =>
        \A i, j \in DOMAIN results : i # j => results[i].title # results[j].title

\* C6 witness: two entries stand in the opposite order of their titles'
\* enumeration.
CompletionOrder ==
    \E i, j \in DOMAIN results, t, u \in DOMAIN pc :
        /\ i < j
        /\ t > u
        /\ results[i].title = allPages[t]
        /\ results[j].title = allPages[u]

\* C7: every entry of the collection holds the cleaned text of its page, of
\* length >= MIN_TEXT_LENGTH, and a step only appends entries.
EntriesLongAndStable ==
    [][/\ \A i \in DOMAIN results' :
             /\ Len(results'[i].content) >= 100
             /\ results'[i].content = Cleaned[KindOf(results'[i].title)]
       /\ Len(results') >= Len(results)
       /\ SubSeq(results', 1, Len(results)) = results]_vars

\* C7 witness: the collection holds an entry of exactly the minimum length
\* beside another entry.
EntryAtThreshold ==
    /\ Len(results) >= 2
    /\ \E i \in DOMAIN results : Len(results[i].content) = 100

\* C8: in the advanced variant a task whose first k responses (1 <= k < 10)
\* were all HTTP 429 and whose next response was a success has fetched k + 1
\* times and slept k times, the i-th sleep of 5000 * 2^(i-1) ms between fetch
\* i and fetch i + 1, and its page is in the collection exactly once if its
\* cleaned text is long enough.
RateLimitBackoff ==
    \A t \in DOMAIN pc :
        (/\ variant = "advanced"
         /\ pc[t] = "done"
         /\ lastResp[t] = OkResp
         /\ rateLimited[t] >= 1
         /\ NumFetches(t) = rateLimited[t] + 1) =>
            LET k == rateLimited[t]
            IN  /\ k < 10
                /\ Len(log[t]) = 2 * k + 1
                /\ \A i \in 1..(k + 1) : log[t][2 * i - 1] = FetchEv
                /\ \A i \in 1..k : log[t][2 * i] = SleepEv(5000 * 2 ^ (i - 1))
                /\ Cardinality(Entries(allPages[t])) =
                       IF HasText(allPages[t]) /\ CleanLen[KindOf(allPages[t])] >= 100
                       THEN 1 ELSE 0

\* C8 witness: 429, 429, 200 gave sleeps of 5 s and 10 s and one entry.
TwoBackoffsThenEmitted ==
    \E t \in DOMAIN pc :
        /\ variant = "advanced"
        /\ pc[t] = "done"
        /\ lastResp[t] = OkResp
        /\ rateLimited[t] = 2
        /\ log[t] = <<FetchEv, SleepEv(5000), FetchEv, SleepEv(10000), FetchEv>>
        /\ Cardinality(Entries(allPages[t])) = 1

\* C9 (as claimed): sleeping tasks do not occupy the gate, so a task is left
\* in the queue only while config.concurrency tasks are fetching or about to.
SleepersFreeTheGate ==
    queue # <<>> => Cardinality(Admitted \ Sleeping) >= config.concurrency

\* C9 (amended): a task sleeping in backoff keeps its slot; the gate counts it,
\* a task is left in the queue exactly while config.concurrency tasks, the
\* sleeping ones included, hold a slot, and the sleep of one task stops no
\* other admitted task from receiving its response.
SleepersKeepTheirSlot ==
    /\ activeCount = Cardinality(Admitted)
    /\ queue # <<>> => activeCount = config.concurrency
    /\ \A u \in InFlight : ENABLED PageOk(u)

\* C9 witness: config.concurrency tasks sleep in backoff at once while a task
\* waits in the queue.
AllSlotsSleeping ==
    /\ queue # <<>>
    /\ Cardinality(Sleeping) = config.concurrency

\* C10 (as claimed): in the advanced variant a task whose page fetch timed out
\* is not finished while attempts remain: the page is fetched again.
TimeoutIsRetried ==
    \A t \in DOMAIN pc :
        (/\ variant = "advanced"
         /\ lastResp[t] = TimeoutError
         /\ attempts[t] < MAX_RETRIES) => pc[t] # "done"

\* C10 (amended): in the advanced variant a page fetch that timed out ends the
\* task at once: no sleep and no fetch follows it, and the page has no entry.
TimeoutAbandonsPage ==
    \A t \in DOMAIN pc :
        (variant = "advanced" /\ lastResp[t] = TimeoutError) =>
            /\ pc[t] = "done"
            /\ log[t][Len(log[t])] = FetchEv
            /\ NumFetches(t) = NumSleeps(t) + 1
            /\ Entries(allPages[t]) = {}

\* C10 witness: a page was abandoned on a timeout at its second attempt, with
\* attempts left, and the scrape has returned.
TimedOutWithAttemptsLeft ==
    \E t \in DOMAIN pc :
        /\ variant = "advanced"
        /\ lastResp[t] = TimeoutError
        /\ attempts[t] = 2
        /\ scrape = "returned"

\* Titles of the batch that answers the outstanding listing request.
Batch == ListResponse(listSent[Len(listSent)]).allpages

\* C11: a listing request is sent only when none is outstanding or in the step
\* that receives the answer of the outstanding one; while the listing loop runs
\* no task exists and nothing was fetched; the tasks are created in the step
\* that receives the listing response without continuation, over the filtered
\* title list, and no listing request is sent afterwards.
EnumerationPrecedesExtraction ==
    [][/\ listSent' # listSent =>
             /\ listSent' = Append(listSent, continueToken')
             /\ pcMain' = "listReq"
             /\ pcMain = "listReq" =>
                    /\ continueToken' = ListResponse(listSent[Len(listSent)]).continue
                    /\ allPages' = allPages \o Batch
             /\ pc' = <<>> /\ queue' = <<>> /\ activeCount' = 0
       /\ pcMain' \in {"listSleep", "listReq"} =>
             /\ pc' = <<>> /\ log' = <<>> /\ activeCount' = 0
       /\ pc' # <<>> =>
             /\ pcMain' \in {"scraping", "done"}
             /\ continueToken' = 0
             /\ listSent' = listSent
             /\ Len(pc') = Len(allPages')
       /\ (pc = <<>> /\ pc' # <<>>) =>
             /\ pcMain = "listReq"
             /\ ListResponse(listSent[Len(listSent)]).continue = 0
             /\ allPages' = Retained(allPages \o Batch)]_vars

\* C11 witness: page fetches are in flight after two listing requests, over a
\* title list that the filter has shortened.
FetchingAfterTwoBatches ==
    /\ Len(listSent) = 2
    /\ InFlight # {}
    /\ Len(allPages) < wikiN

\* The batches that answer the first n listing requests, concatenated.
RECURSIVE Batches(_, _)
Batches(sent, n) ==
    IF n = 0 THEN <<>> ELSE Batches(sent, n - 1) \o ListResponse(sent[n]).allpages

\* C12: the first listing request carries no continuation and every later one
\* the continuation of the response just before it; the accumulator holds the
\* batches received so far in request order; the loop ends at the first
\* response without continuation, and the list that is then filtered is the
\* concatenation of all batches, i.e. the titles of the wiki in order.
ContinuationProtocol ==
    /\ listSent # <<>> => listSent[1] = 0
    /\ \A i \in 1..(Len(listSent) - 1) :
          /\ ListResponse(listSent[i]).continue # 0
          /\ listSent[i + 1] = ListResponse(listSent[i]).continue
    /\ pcMain = "listReq" => allPages = Batches(listSent, Len(listSent) - 1)
    /\ pcMain = "listSleep" => allPages = Batches(listSent, Len(listSent))
    /\ (pc # <<>> \/ scrape = "returned") =>
          /\ ListResponse(listSent[Len(listSent)]).continue = 0
          /\ Batches(listSent, Len(listSent)) = [i \in 1..wikiN |-> TitleAt(i)]
          /\ allPages = Retained(Batches(listSent, Len(listSent)))

\* C12 witness: three pages listed in two batches, all three retained in order.
ThreePagesTwoBatches ==
    /\ pcMain = "scraping"
    /\ listSent = <<0, 2>>
    /\ Len(ListResponse(0).allpages) = 2
    /\ Len(ListResponse(2).allpages) = 1
    /\ allPages = <<TitleAt(1), TitleAt(2), TitleAt(3)>>

\* The titles the wiki lists, in listing order.
Enumerated == [i \in 1..wikiN |-> TitleAt(i)]

\* The pattern of the matcher occurs in the title (one test, from its start).
Matches(re, title) == RegexTest(re, title, 0).found

\* C13 (as claimed): under an explicit filter the retained list is the
\* subsequence of the enumerated titles that the pattern matches, whatever
\* the flags of the matcher and whatever titles come before a title.
FilterKeepsEveryMatch ==
    (pc # <<>> /\ ~filter.none) =>
        allPages = SelectSeq(Enumerated, LAMBDA title : Matches(filter, title))

\* The title ends in a slash, 2 or 3 characters of the class letter and
\* optionally a hyphen and one or more characters of that class.
LocaleSuffix(title, letter(_)) ==
    \E n \in 1..Len(title) :
        LET tail == SubSeq(title, Len(title) - n + 1, Len(title))
            dash == {i \in 1..n : tail[i] = "-"}
            code == IF dash = {} THEN SubSeq(tail, 2, n)
                    ELSE SubSeq(tail, 2, (CHOOSE i \in dash : \A j \in dash : i <= j) - 1)
            region == SubSeq(tail, Len(code) + 3, n)
        IN  /\ tail[1] = "/"
            /\ Len(code) \in {2, 3}
            /\ \A i \in 1..Len(code) : letter(code[i])
            /\ dash # {} => Len(region) >= 1 /\ \A i \in 1..Len(region) : letter(region[i])

\* C14 (as claimed): without a matcher, autoFilterLangs drops exactly the
\* titles that end in a locale suffix of lower-case letters, and without
\* autoFilterLangs every enumerated title is retained.
AutoFilterDropsLowerCaseSuffixes ==
    (pc # <<>> /\ filter.none) =>
        allPages = IF config.autoFilterLangs
                   THEN SelectSeq(Enumerated, LAMBDA title : ~LocaleSuffix(title, IsLower))
                   ELSE Enumerated

\* C14 (amended): without a matcher, autoFilterLangs drops exactly the titles
\* that end in a locale suffix of letters of either case, and without
\* autoFilterLangs every enumerated title is retained.
AutoFilterDropsLocaleSuffixes ==
    (pc # <<>> /\ filter.none) =>
        allPages = IF config.autoFilterLangs
                   THEN SelectSeq(Enumerated, LAMBDA title : ~LocaleSuffix(title, IsLetter))
                   ELSE Enumerated

\* C14 witness: of the seven titles of the pool the automatic filter has
\* dropped a/fr, B/FR and b/zh-hans and kept b/abcd.
UpperCaseSuffixDropped ==
    /\ pc # <<>>
    /\ filter.none
    /\ config.autoFilterLangs
    /\ wikiN = 7
    /\ allPages = <<TitleAt(1), TitleAt(3), TitleAt(4), TitleAt(6)>>

ToUpper(c) == IF IsLower(c) THEN Upper[CHOOSE i \in 1..Len(Lower) : c = Lower[i]] ELSE c

UpperStr(s) == [i \in 1..Len(s) |-> ToUpper(s[i])]

\* The handler has compiled the filter input of the request.
Compiled == scrape # "none"

\* A filter input without delimiters.
Bare(input) == input # Absent /\ Len(input) > 0 /\ input[1] # "/"

\* C15 (as claimed): once the handler has compiled the filter input, /a/i has
\* given a matcher that matches "a" in either case, a bare input a matcher
\* that matches the input in either case, an empty or absent input no
\* matcher, and an input whose flags the engine rejects no matcher.
CompilerContract ==
    Compiled =>
        /\ body.filter = <<"/", "a", "/", "i">> =>
              /\ ~filter.none
              /\ Matches(filter, <<"A">>) /\ Matches(filter, <<"a">>)
        /\ Bare(body.filter) =>
              /\ ~filter.none
              /\ Matches(filter, LowerStr(body.filter))
              /\ Matches(filter, UpperStr(body.filter))
        /\ body.filter \in {Absent, <<>>} => filter.none
        /\ body.filter = <<"/", "b", "/", "x">> => filter.none

\* The url input trimmed and without one trailing slash.
Stripped(u) ==
    LET t == Trim(u)
    IN  IF Len(t) > 0 /\ t[Len(t)] = "/" THEN SubSeq(t, 1, Len(t) - 1) ELSE t

\* C16: the url that the mediawiki handler has resolved from its input is a
\* fixed point of getMediaWikiApiUrl, and an input that ends in api.php once
\* trimmed and rid of one trailing slash is resolved to just that.
ResolveIdempotent ==
    (Compiled /\ route = "mediawiki") =>
        /\ apiUrl = getMediaWikiApiUrl(body.target)
        /\ getMediaWikiApiUrl(apiUrl) = apiUrl
        /\ EndsWith(Stripped(body.target), ApiPhp) => apiUrl = Stripped(body.target)
        /\ ~EndsWith(Stripped(body.target), ApiPhp) =>
               apiUrl = Stripped(body.target) \o SlashApiPhp

\* C16 witness: " w/api.php/" was resolved to "w/api.php".
ResolvedWithoutSecondSuffix ==
    /\ Compiled
    /\ route = "mediawiki"
    /\ body.target = <<" ", "w", "/">> \o ApiPhp \o <<"/">>
    /\ apiUrl = <<"w", "/">> \o ApiPhp

\* Responses after which the advanced variant waits 2 s and tries again.
Transient == {HttpError(502), HttpError(503), NetError("ECONNRESET")}

\* The last sleep a task has logged.
LastSleep(t) ==
    LET at == {i \in DOMAIN log[t] : log[t][i].ev = "sleep"}
    IN  log[t][CHOOSE i \in at : \A j \in at : i >= j]

\* C17: in the advanced variant a task fetches its page at most 10 times,
\* whatever mix of 429, 502, 503 and connection resets it meets; after a 502,
\* a 503 or a connection reset it sleeps 2000 ms and, attempts remaining,
\* fetches again; a success ends the task without another fetch; after the
\* 10th failure the task ends with 10 fetches and no entry, and the scrape
\* returns.
RetryBudget ==
    \A t \in DOMAIN pc :
        variant = "advanced" =>
            /\ attempts[t] <= 10
            /\ NumFetches(t) <= 10
            /\ NumFetches(t) <= attempts[t] + 1
            /\ \A i \in DOMAIN log[t] :
                  log[t][i].ev = "sleep" => i > 1 /\ log[t][i - 1] = FetchEv
            /\ lastResp[t] \in Transient =>
                  /\ LastSleep(t) = SleepEv(2000)
                  /\ pc[t] = "backoff" => log[t][Len(log[t])] = SleepEv(2000)
                  /\ attempts[t] < 10 => pc[t] \in {"backoff", "jitter", "fetching"}
                  /\ attempts[t] = 10 => pc[t] \in {"backoff", "done"}
            /\ lastResp[t] = OkResp =>
                  /\ pc[t] = "done"
                  /\ log[t][Len(log[t])] = FetchEv
            /\ (pc[t] = "done" /\ lastResp[t] \in Transient \cup {HttpError(429)}) =>
                  /\ attempts[t] = 10
                  /\ NumFetches(t) = 10
                  /\ Entries(allPages[t]) = {}
            /\ Done = DOMAIN pc => scrape = "returned"

\* C17 witness: a page was dropped after 10 fetches that met both rate limits
\* and transient errors, the last one a 503, and the scrape has returned.
DroppedAfterTenAttempts ==
    \E t \in DOMAIN pc :
        /\ variant = "advanced"
        /\ pc[t] = "done"
        /\ NumFetches(t) = 10
        /\ rateLimited[t] \in 1..8
        /\ lastResp[t] = HttpError(503)
        /\ log[t][2] = SleepEv(2000)
        /\ scrape = "returned"
        /\ results = <<>>

\* The last attempt of the task ended with an error that is neither a 429, a
\* 502, a 503 nor a connection reset: a 404, a timeout, or an exception raised
\* while the page of a successful response was processed.
FailedForGood(t) ==
    \/ lastResp[t] \in {HttpError(404), TimeoutError}
    \/ lastResp[t] = OkResp /\ PageOf(allPages[t]).throws

\* C18: in the advanced variant a task whose attempt failed with such an error
\* is finished: no sleep follows its last fetch, its page has no entry, one
\* error line was written for it if that was its first failure and
\* concurrency < 5 and none otherwise; no error line is written for any other
\* task, and the scrape is not rejected.
OtherErrorsAbandonAtOnce ==
    variant = "advanced" =>
        /\ \A t \in DOMAIN pc :
              IF FailedForGood(t)
              THEN /\ pc[t] = "done"
                   /\ log[t][Len(log[t])] = FetchEv
                   /\ NumFetches(t) = NumSleeps(t) + 1
                   /\ Entries(allPages[t]) = {}
                   /\ errLines[t] =
                          IF attempts[t] = 1 /\ config.concurrency < 5 THEN 1 ELSE 0
              ELSE errLines[t] = 0
        /\ pc # <<>> => scrape # "rejected"
        /\ (pc # <<>> /\ Done = DOMAIN pc) => scrape = "returned"

\* C18 witness: at concurrency 2 one page was abandoned on a 404 at its first
\* attempt, with its error line, and another on a processing exception at its
\* second attempt, without one; the scrape has returned.
AbandonedWithAndWithoutLine ==
    \E t, u \in DOMAIN pc :
        /\ variant = "advanced"
        /\ config.concurrency = 2
        /\ lastResp[t] = HttpError(404)
        /\ errLines[t] = 1
        /\ lastResp[u] = OkResp
        /\ PageOf(allPages[u]).throws
        /\ attempts[u] = 2
        /\ errLines[u] = 0
        /\ scrape = "returned"

\* Positions in the log of a task of the sleeps caused by a 429 (the sleeps
\* caused by the other retried errors last 2000 ms).
RateSleeps(t) == {i \in DOMAIN log[t] : log[t][i].ev = "sleep" /\ log[t][i].ms # 2000}

\* Number of sleeps in the log of a task up to position i.
SleepsUpTo(t, i) == Cardinality({j \in 1..i : log[t][j].ev = "sleep"})

\* C19 (as claimed): for every task of the advanced variant the first sleep
\* caused by a 429 lasts 5000 ms and every later one twice as long as the one
\* before it, whatever other failures the task has met.
RateWaitsStartAtBaseAndDouble ==
    \A t \in DOMAIN pc :
        variant = "advanced" =>
            \A i \in RateSleeps(t) :
                LET before == {j \in RateSleeps(t) : j < i}
                IN  IF before = {} THEN log[t][i].ms = 5000
                    ELSE log[t][i].ms =
                             2 * log[t][CHOOSE j \in before : \A k \in before : j >= k].ms

\* C19 (amended): for every task of the advanced variant each 429 response has
\* caused one sleep, and the sleep caused by a 429 lasts 5000 * 2^(n-1) ms where
\* n counts the failed attempts of the task so far, of every retried kind.
RateWaitsCountEveryFailure ==
    \A t \in DOMAIN pc :
        variant = "advanced" =>
            /\ Cardinality(RateSleeps(t)) = rateLimited[t]
            /\ \A i \in RateSleeps(t) :
                  log[t][i].ms = 5000 * 2 ^ (SleepsUpTo(t, i) - 1)

\* C19 witness: a 503, a 429 and a success: the first wait for a rate limit
\* lasted 10 s.
RateLimitAfterTransient ==
    \E t \in DOMAIN pc :
        /\ variant = "advanced"
        /\ lastResp[t] = OkResp
        /\ log[t] = <<FetchEv, SleepEv(2000), FetchEv, SleepEv(10000), FetchEv>>

\* C20: every step that finishes a task, whatever its outcome, adds one to the
\* completed counter and no other step changes it; the counter never exceeds
\* the number of retained titles and equals it once performScrape has
\* returned; the step that makes the counter reach that number reports it.
CompletedCountsEveryTask ==
    [][LET done == {t \in DOMAIN pc' : pc'[t] = "done"}
       IN  /\ Done \subseteq done
           /\ completed' = completed + Cardinality(done \ Done)
           /\ completed' = Cardinality(done)
           /\ completed' \in {completed, completed + 1}
           /\ pc' # <<>> => completed' <= Len(allPages')
           /\ scrape' = "returned" => completed' = Len(allPages')
           /\ (completed' # completed /\ completed' = Len(allPages')) =>
                 progress' = Append(progress, completed')
           /\ progress' # progress => progress' = Append(progress, completed')]_vars

\* C20 witness: three tasks have ended, one with an entry, one skipped and one
\* abandoned on a 404; the counter is three and was reported once, at three.
ThreeOutcomesCounted ==
    \E t, u, v \in DOMAIN pc :
        /\ Entries(allPages[t]) # {}
        /\ lastResp[u] = OkResp /\ Entries(allPages[u]) = {}
        /\ lastResp[v] = HttpError(404)
        /\ scrape = "returned"
        /\ completed = 3
        /\ progress = <<3>>

\* The element of the markup at place i is a heading that nothing follows or
\* that a heading follows.
Dangling(names, i) ==
    /\ names[i] \in {"h2", "h3", "h4", "h5", "h6"}
    /\ \/ i = Len(names)
       \/ names[i + 1] \in {"h2", "h3", "h4", "h5", "h6"}

\* C21: once a page has gone through the pruning pass, the elements left are
\* those of its markup, in order, that are not dangling headings: each h2-h6
\* heading without a following sibling element or followed by an h2-h6 heading
\* is gone, each heading followed by another element is kept; and no heading
\* left is the last element or followed by an h2-h6 heading.
DanglingHeadingsPruned ==
    pruned.ran =>
        LET out == pruned.elements
        IN  /\ out = SelectSeq(Dom(markup), LAMBDA el : ~Dangling(markup, el.id))
            /\ \A i \in 1..Len(markup) :
                  (\E k \in 1..Len(out) : out[k].id = i) <=> ~Dangling(markup, i)
            /\ \A k \in 1..Len(out) :
                  out[k].name \in {"h2", "h3", "h4", "h5", "h6"} =>
                      /\ k < Len(out)
                      /\ out[k + 1].name \notin {"h2", "h3", "h4", "h5", "h6"}

\* C21 witness: of <h2/><h2/><p/><h3/> the pass has removed the first h2 and
\* the trailing h3 and kept the h2 that the paragraph follows.
FirstOfTwoHeadingsRemoved ==
    /\ pruned.ran
    /\ markup = <<"h2", "h2", "p", "h3">>
    /\ pruned.elements = <<[id |-> 2, name |-> "h2"], [id |-> 3, name |-> "p"]>>

\* C22: if no listing request fails and every sleep and request completes, a
\* pending performScrape eventually returns; and whenever it has returned every
\* scheduled task has finished, no task holds a slot of the gate, no fetch is
\* in flight and the queue is empty.
ScrapeTerminates ==
    /\ (scrape = "pending") ~> (scrape = "returned" \/ listFailed)
    /\ [](scrape = "returned" =>
             /\ Done = DOMAIN pc
             /\ Len(pc) = Len(allPages)
             /\ activeCount = 0
             /\ Admitted = {}
             /\ InFlight = {}
             /\ queue = <<>>)

\* C22 witness: a scrape of three pages through a gate of width 2 has returned
\* after one of its tasks had slept in backoff.
ReturnedAfterQueueAndBackoff ==
    /\ scrape = "returned"
    /\ Len(pc) = 3
    /\ config.concurrency = 2
    /\ \E t \in DOMAIN pc : NumSleeps(t) > 0

\* C23 (as claimed): in the advanced variant a task sleeps in backoff only
\* while it has attempts left, so that a fetch of its page follows the sleep,
\* and no task has ended on a sleep.
BackoffIsFollowedByFetch ==
    \A t \in DOMAIN pc :
        variant = "advanced" =>
            /\ pc[t] = "backoff" => attempts[t] < MAX_RETRIES
            /\ (pc[t] = "done" /\ log[t] # <<>>) => log[t][Len(log[t])].ev # "sleep"

====
